---- MODULE Spec2Model ----
(***************************************************************************)
(* Model of the capture / fingerprint / compare / advance loop of          *)
(* src/main.py (class AppManager and function main).                       *)
(*                                                                         *)
(* Optional[...] values of the source are sequences of length at most one: *)
(* None is the empty sequence and a present value x is <<x>>.  Strings are *)
(* sequences of one-character strings.                                     *)
(***************************************************************************)
EXTENDS Integers, Sequences, FiniteSets, TLC

VARIABLES
  pc,                \* position of main(): "select", "focus_check", "capture", "advance", "done"
  screenshots_dir,   \* sorted(screenshots_dir.glob("*.png")): sequence of files in name order
  last_image_hash,   \* AppManager.last_image_hash
  reached_duplicate, \* AppManager.reached_duplicate
  duplicate_count,   \* main's local duplicate_count
  target_bundle_id,  \* main's local target_bundle_id
  frontmost,         \* main's local frontmost from the focus check to the capture that follows
                     \* it; None afterwards (the local is assigned again before it is read)
  shot,              \* main's local shot (last value returned by capture_screenshot)
  moved,             \* main's local moved (last value returned by send_right_arrow)
  ebook_pdf,         \* pages of base_dir/ebook.pdf, None while the file does not exist
  exit,              \* which break ended the last capture loop
  run,               \* number of capture loops started by this process
  verdict,           \* outcome of the last capture_screenshot call: "New", "Duplicate", "Failed"
  dup_run,           \* Duplicate verdicts since the last New verdict of this run
  failures,          \* capture_screenshot calls of this run that returned without classifying
  captured,          \* frame the capture_screenshot call main is handling wrote to tmp_path,
                     \* None if it wrote none and once main has moved on to the advance
  new_frames,        \* frames this run classified New, in capture order
  probe,             \* value the last _capture_temp_hash call returned, None before any call
  pending,           \* a frame of this run was classified and no advance was delivered since
  advances,          \* send_right_arrow calls since the last capture_screenshot call
  image,             \* the transformed grid handed to _calculate_phash, None outside that check
  phash              \* the string _calculate_phash returned for image, None before the call

vars == <<pc, screenshots_dir, last_image_hash, reached_duplicate, duplicate_count,
          target_bundle_id, frontmost, shot, moved, ebook_pdf, exit, run, verdict,
          dup_run, failures, captured, new_frames, probe, pending, advances,
          image, phash>>

\* ----------------------------------------------------------------- bounds
MaxPages == 2      \* files the screenshots directory may hold
MaxRuns == 2       \* capture loops one process starts
MaxFailures == 1   \* failed captures in one capture loop
MaxCoef == 2       \* largest magnitude of a coefficient class handed to _calculate_phash

\* ------------------------------------------------------- program constants
max_duplicates == 10
threshold == 3
HashSide == 8
GridSide == 32
Md5HexLen == 32

None == << >>
Some(x) == << x >>

\* Python truthiness of an Optional[str]: neither None nor "".
Truthy(o) == o # None /\ Len(o[1]) > 0

\* ------------------------------------------------------------------ frames
\* What the target window can show.  A frame is known by the 8x8 low
\* frequency block of its DCT: HighCoef(f) are the positions y*8+x whose
\* coefficient is +Amp(f), the other non-DC positions hold -Amp(f).
\*   F1   blank page            F2   text A      F2j  text A with jitter
\*   F3   text B                F3b  F3 with three changed bits
\*   F3c  F3 with four changed bits
\*   Bad  a frame whose PNG PIL cannot open (Image.open raises)
Frames == {"F1", "F2", "F2j", "Bad"}
BoundaryFrames == {"F3", "F3b", "F3c", "Bad"}

Readable(f) == f # "Bad"

HighCoef(f) ==
  CASE f = "F1"  -> {}
    [] f = "F2"  -> 1..8
    [] f = "F2j" -> 1..9
    [] f = "F3"  -> 20..30
    [] f = "F3b" -> 20..33
    [] f = "F3c" -> 20..34
    [] OTHER     -> {}

Amp(f) == IF f = "F1" THEN 0 ELSE 100

\* dct[y][x] for y, x in 0..7 (the top-left block read by _calculate_phash)
Dct(f) ==
  [y \in 0..(HashSide - 1) |-> [x \in 0..(HashSide - 1) |->
     IF x = 0 /\ y = 0 THEN 8000
     ELSE IF (y * HashSide + x) \in HighCoef(f) THEN Amp(f) ELSE 0 - Amp(f)]]

RECURSIVE SumSeq(_)
SumSeq(s) == IF s = << >> THEN 0 ELSE Head(s) + SumSeq(Tail(s))

\* vals of _calculate_phash: the block in row-major order without (0,0)
PhashVals(dct) ==
  [i \in 1..(HashSide * HashSide - 1) |-> dct[i \div HashSide][i % HashSide]]

\* _calculate_phash with the comparison of line 428 written as ">="
_calculate_phash_GreaterEqual(dct) ==
  LET vals == PhashVals(dct)
      total == SumSeq(vals)
  IN  [i \in 1..(HashSide * HashSide) |->
         LET y == (i - 1) \div HashSide
             x == (i - 1) % HashSide
         IN  IF x = 0 /\ y = 0 THEN "0"
             ELSE IF dct[y][x] * Len(vals) >= total THEN "1" ELSE "0"]

\* _calculate_phash, steps 4 and 5: bit (0,0) is '0', every other bit is '1'
\* iff dct[y][x] > avg with avg = sum(vals) / len(vals); the comparison is
\* made on integers as dct[y][x] * len(vals) > sum(vals).
_calculate_phash(dct) ==
  LET vals == PhashVals(dct)
      total == SumSeq(vals)
  IN  [i \in 1..(HashSide * HashSide) |->
         LET y == (i - 1) \div HashSide
             x == (i - 1) % HashSide
         IN  IF x = 0 /\ y = 0 THEN "0"
             ELSE IF dct[y][x] * Len(vals) > total THEN "1" ELSE "0"]

\* hashlib.md5(bytes).hexdigest(): 32 hexadecimal characters that depend on
\* the file's bytes.
HexDigits == <<"0", "1", "2", "3", "4", "5", "6", "7",
               "8", "9", "a", "b", "c", "d", "e", "f">>
FrameSeed(f) ==
  CASE f = "F1" -> 1 [] f = "F2" -> 2 [] f = "F2j" -> 3 [] f = "F3" -> 4
    [] f = "F3b" -> 5 [] f = "F3c" -> 6 [] OTHER -> 7
_calculate_image_hash(f) ==
  [i \in 1..Md5HexLen |-> HexDigits[((FrameSeed(f) * 7 + i * 3) % 16) + 1]]

AllFrames == Frames \cup BoundaryFrames

\* the pHash and the MD5 of every frame, computed once
PhashOf == [f \in AllFrames |-> _calculate_phash(Dct(f))]
Md5Of == [f \in AllFrames |-> _calculate_image_hash(f)]

\* lines 261-265: current_phash, None when opening or hashing the image raises
CurrentPhash(f) == IF Readable(f) THEN Some(PhashOf[f]) ELSE None

\* _phash_distance(a, b)
_phash_distance(a, b) ==
  IF ~Truthy(a) \/ ~Truthy(b) THEN 0
  ELSE IF Len(a[1]) # Len(b[1]) THEN 0
  ELSE Cardinality({i \in 1..Len(a[1]) : a[1][i] # b[1][i]})

\* ------------------------------------------------- the screenshots directory
\* A file is [kind, ts, img]: kind and ts make its name ("screenshot_<ts>.png",
\* "screenshot_<ts>_tmp.png", "_probe_<ts>.png"), img is the frame it holds.
\* ts is int(time.time()) read as an ordinal: main sleeps at least 1.5 s
\* between two captures that persist, so every new stamp is larger than the
\* stamps already in the directory.
KindRank(k) ==
  CASE k = "_probe" -> 0 [] k = "screenshot" -> 1 [] OTHER -> 2

\* order of the file names under sorted(): "_probe_..." < "screenshot_<ts>.png"
\* < "screenshot_<ts>_tmp.png" for the same ts, smaller ts first
NameLess(a, b) ==
  IF a.kind = "_probe" /\ b.kind # "_probe" THEN TRUE
  ELSE IF a.kind # "_probe" /\ b.kind = "_probe" THEN FALSE
  ELSE IF a.ts # b.ts THEN a.ts < b.ts
  ELSE KindRank(a.kind) < KindRank(b.kind)

RECURSIVE InsertSorted(_, _)
InsertSorted(dir, file) ==
  IF dir = << >> THEN << file >>
  ELSE IF NameLess(file, Head(dir)) THEN << file >> \o dir
  ELSE << Head(dir) >> \o InsertSorted(Tail(dir), file)

\* Path.unlink(missing_ok=True) of the file named (kind, ts)
Unlink(dir, kind, ts) ==
  SelectSeq(dir, LAMBDA e : ~(e.kind = kind /\ e.ts = ts))

RECURSIVE MaxStamp(_)
MaxStamp(dir) ==
  IF dir = << >> THEN 0
  ELSE LET m == MaxStamp(Tail(dir))
       IN  IF Head(dir).ts > m THEN Head(dir).ts ELSE m

\* timestamp = int(time.time())
Timestamp(dir) == MaxStamp(dir) + 1

Images(dir) == [i \in 1..Len(dir) |-> dir[i].img]

\* _clear_screenshots_folder: every file of the directory is unlinked
_clear_screenshots_folder(dir) == SelectSeq(dir, LAMBDA e : FALSE)

\* ------------------------------------------------------- capture_screenshot
\* What the window server answers to one capture_screenshot call.
CaptureEnv == {"no_window_list", "no_visible_window", "no_window_id",
               "no_image", "dest_error", "ok"}

\* IsDuplicateFrame with the comparison of line 274 written as "<"
IsDuplicateFrame_Strict(last, current_phash) ==
  /\ Truthy(last)
  /\ Truthy(current_phash)
  /\ _phash_distance(current_phash, last) < threshold

\* The frames a call can get hold of: no image is made unless the window
\* server answers "ok".
ShownWhen(env, shown) == IF env = "ok" THEN shown ELSE {"none"}

\* lines 271-274: the frame is a repeat of the baseline
IsDuplicateFrame(last, current_phash) ==
  /\ Truthy(last)
  /\ Truthy(current_phash)
  /\ _phash_distance(current_phash, last) <= threshold

\* DuplicateBranch that also takes the repeated frame as the new baseline
DuplicateBranch_Rebase(st, ts, current_phash) ==
  [hash    |-> current_phash,
   flag    |-> TRUE,
   dir     |-> Unlink(st.dir, "screenshot_tmp", ts),
   shot    |-> None,
   verdict |-> "Duplicate"]

\* lines 275-279: the temporary file is removed, nothing else is touched
DuplicateBranch(st, ts, current_phash) ==
  [hash    |-> st.hash,
   flag    |-> TRUE,
   dir     |-> Unlink(st.dir, "screenshot_tmp", ts),
   shot    |-> None,
   verdict |-> "Duplicate"]

\* PersistBranch without the return of line 288: the caller gets None
PersistBranch_NoReturn(st, ts, f, current_phash) ==
  [hash    |-> IF Truthy(current_phash) THEN current_phash
               ELSE Some(Md5Of[f]),
   flag    |-> FALSE,
   dir     |-> InsertSorted(Unlink(st.dir, "screenshot_tmp", ts),
                            [kind |-> "screenshot", ts |-> ts, img |-> f]),
   shot    |-> None,
   verdict |-> "New"]

\* lines 281-288: tmp_path.rename(final_path), the baseline becomes the
\* frame's pHash, or the MD5 of the file when there is no pHash
PersistBranch(st, ts, f, current_phash) ==
  [hash    |-> IF Truthy(current_phash) THEN current_phash
               ELSE Some(Md5Of[f]),
   flag    |-> FALSE,
   dir     |-> InsertSorted(Unlink(st.dir, "screenshot_tmp", ts),
                            [kind |-> "screenshot", ts |-> ts, img |-> f]),
   shot    |-> Some([kind |-> "screenshot", ts |-> ts]),
   verdict |-> "New"]

\* lines 195-217: the early returns that leave reached_duplicate as it is
EarlyReturn(st) ==
  [hash |-> st.hash, flag |-> st.flag, dir |-> st.dir,
   shot |-> None, verdict |-> "Failed"]

\* lines 226-229 and the handler of lines 290-293
FailureReturn(st) ==
  [hash |-> st.hash, flag |-> FALSE, dir |-> st.dir,
   shot |-> None, verdict |-> "Failed"]

\* capture_screenshot(bundle_id, pid).  main always passes the pid of the
\* selected app (lines 106, 666, 690), so target_pid is resolved at line 172.
capture_screenshot(st, env, f) ==
  IF env \in {"no_window_list", "no_visible_window", "no_window_id"}
    THEN EarlyReturn(st)
  ELSE IF env \in {"no_image", "dest_error"}
    THEN FailureReturn(st)
  ELSE
    LET ts == Timestamp(st.dir)
        written == [st EXCEPT !.dir = InsertSorted(st.dir,
                      [kind |-> "screenshot_tmp", ts |-> ts, img |-> f])]
        current_phash == CurrentPhash(f)
    IN  IF IsDuplicateFrame(st.hash, current_phash)
          THEN DuplicateBranch(written, ts, current_phash)
          ELSE PersistBranch(written, ts, f, current_phash)

\* ------------------------------------------------------- _capture_temp_hash
\* What the window server answers to one _capture_temp_hash call.
ProbeEnv == {"no_appkit", "no_visible_window", "no_window_id", "no_image",
             "no_dest", "finalize_failed", "ok"}

\* _capture_temp_hash without the unlink of line 366
_capture_temp_hash_NoUnlink(st, env, f) ==
  IF env # "ok"
    THEN [hash |-> st.hash, flag |-> st.flag, dir |-> st.dir, ret |-> None]
  ELSE
    LET ts == Timestamp(st.dir)
        written == InsertSorted(st.dir, [kind |-> "_probe", ts |-> ts, img |-> f])
        ph == CurrentPhash(f)
    IN  [hash |-> st.hash, flag |-> st.flag, dir |-> written, ret |-> ph]

\* _capture_temp_hash(bundle_id, pid): every return before line 349 leaves no
\* file behind; past it the probe image is written to _probe_<ts>.png, hashed
\* (ph is None when opening or hashing raises) and unlinked at line 366.
_capture_temp_hash(st, env, f) ==
  IF env # "ok"
    THEN [hash |-> st.hash, flag |-> st.flag, dir |-> st.dir, ret |-> None]
  ELSE
    LET ts == Timestamp(st.dir)
        written == InsertSorted(st.dir, [kind |-> "_probe", ts |-> ts, img |-> f])
        ph == CurrentPhash(f)
    IN  [hash |-> st.hash, flag |-> st.flag,
         dir  |-> Unlink(written, "_probe", ts),
         ret  |-> ph]

\* ------------------------------------------------------------- _create_pdf
\* lines 452-459: the sorted *.png files, the last one left out when there
\* are at least two
PdfImageFiles(dir) ==
  IF Len(dir) > 1 THEN SubSeq(dir, 1, Len(dir) - 1) ELSE dir

\* _create_pdf: ebook.pdf after the call.  No file: early return.  An image
\* PIL cannot open raises before c.save(), and the handler of line 553 leaves
\* the old ebook.pdf in place.
_create_pdf(dir, pdf) ==
  IF dir = << >> THEN pdf
  ELSE LET image_files == PdfImageFiles(dir)
       IN  IF \E i \in 1..Len(image_files) : ~Readable(image_files[i].img)
             THEN pdf
             ELSE Some(Images(image_files))

\* --------------------------------------------------------- send_right_arrow
\* primary: the osascript key code succeeds; fallback: the Quartz event post
\* succeeds.  The fallback is tried only after the primary failed.
send_right_arrow(primary, fallback) == IF primary THEN TRUE ELSE fallback

\* ------------------------------------------------------- _get_frontmost_app
\* Some(bundle id) when osascript returns 0 (the id may be empty), else None.
Apps == {"com.ebook.reader"}
Foreground == {None, Some("com.ebook.reader"), Some("com.apple.Terminal")}

\* FocusChanged with the comparison of line 679 written as "=="
FocusChanged_Equal(fm, target) == fm # None /\ fm[1] # "" /\ fm[1] = target

\* line 679: frontmost and frontmost != target_bundle_id
FocusChanged(fm, target) == fm # None /\ fm[1] # "" /\ fm[1] # target

\* ReachedMax with the comparison of line 698 written as ">"
ReachedMax_Strict(count) == count > max_duplicates

\* line 698
ReachedMax(count) == count >= max_duplicates

\* ------------------------------------------------------------------- state
AppState == [hash |-> last_image_hash, flag |-> reached_duplicate,
             dir |-> screenshots_dir]

\* Files a previous process may have left in the screenshots directory.
Leftover == {<< >>, << [kind |-> "screenshot", ts |-> 1, img |-> "F1"] >>}

\* AppManager() at line 646 (lines 39-48), before the first app selection
InitMain ==
  /\ pc = "select"
  /\ \E old \in Leftover : screenshots_dir = _clear_screenshots_folder(old)
  /\ last_image_hash = None
  /\ reached_duplicate = FALSE
  /\ duplicate_count = 0
  /\ target_bundle_id = None
  /\ frontmost = None
  /\ shot = None
  /\ moved = FALSE
  /\ ebook_pdf = None
  /\ exit = "none"
  /\ run = 0
  /\ verdict = "none"
  /\ dup_run = 0
  /\ failures = 0
  /\ captured = None
  /\ new_frames = << >>
  /\ probe = None
  /\ pending = FALSE
  /\ advances = 0

Init ==
  /\ InitMain
  /\ image = None
  /\ phash = None

\* lines 649-674: one pass of the outer loop up to the start of the capture
\* loop.  choice is what get_running_apps, the selector and focus_app yield.
SelectApp ==
  /\ pc = "select"
  /\ \E choice \in {"no_apps", "quit", "focus_failed", "start"}, app \in Apps :
       IF choice \in {"no_apps", "quit"} THEN
         /\ pc' = "done"
         /\ UNCHANGED <<target_bundle_id, duplicate_count, run, exit, verdict,
                        dup_run, failures, captured, new_frames, pending,
                        advances>>
       ELSE IF choice = "focus_failed" THEN
         /\ pc' = "select"
         /\ target_bundle_id' = Some(app)
         /\ UNCHANGED <<duplicate_count, run, exit, verdict, dup_run,
                        failures, captured, new_frames, pending, advances>>
       ELSE
         /\ run < MaxRuns
         /\ pc' = "focus_check"
         /\ target_bundle_id' = Some(app)
         /\ duplicate_count' = 0
         /\ run' = run + 1
         /\ exit' = "none"
         /\ verdict' = "none"
         /\ dup_run' = 0
         /\ failures' = 0
         /\ captured' = None
         /\ new_frames' = << >>
         /\ pending' = FALSE
         /\ advances' = 0
  /\ UNCHANGED <<screenshots_dir, last_image_hash, reached_duplicate,
                 frontmost, shot, moved, ebook_pdf, probe, image, phash>>

\* lines 677-686: the focus check at the top of an iteration
FocusCheck ==
  /\ pc = "focus_check"
  /\ \E fm \in Foreground :
       /\ frontmost' = fm
       /\ IF FocusChanged(fm, target_bundle_id[1]) THEN
            /\ ebook_pdf' = _create_pdf(screenshots_dir, ebook_pdf)
            /\ exit' = "focus"
            /\ pc' = "select"
          ELSE
            /\ pc' = "capture"
            /\ UNCHANGED <<ebook_pdf, exit>>
  /\ UNCHANGED <<screenshots_dir, last_image_hash, reached_duplicate,
                 duplicate_count, target_bundle_id, shot, moved, run, verdict,
                 dup_run, failures, captured, new_frames, probe, pending,
                 advances, image, phash>>

\* lines 688-710: capture_screenshot and the three-way branch on its result
CaptureOf(shown) ==
  /\ pc = "capture"
  /\ \E env \in CaptureEnv : \E f \in ShownWhen(env, shown) :
       LET r == capture_screenshot(AppState, env, f) IN
       /\ Len(r.dir) <= MaxPages
       /\ r.verdict = "Failed" => failures < MaxFailures
       /\ last_image_hash' = r.hash
       /\ reached_duplicate' = r.flag
       /\ screenshots_dir' = r.dir
       /\ shot' = r.shot
       /\ verdict' = r.verdict
       /\ dup_run' = CASE r.verdict = "New" -> 0
                       [] r.verdict = "Duplicate" -> dup_run + 1
                       [] OTHER -> dup_run
       /\ failures' = IF r.verdict = "Failed" THEN failures + 1 ELSE failures
       /\ captured' = IF r.verdict = "Failed" THEN None ELSE Some(f)
       /\ new_frames' = IF r.verdict = "New" THEN Append(new_frames, f)
                         ELSE new_frames
       /\ pending' = IF r.verdict = "Failed" THEN pending ELSE TRUE
       /\ IF r.flag THEN
            /\ duplicate_count' = duplicate_count + 1
            /\ IF ReachedMax(duplicate_count + 1) THEN
                 /\ ebook_pdf' = _create_pdf(r.dir, ebook_pdf)
                 /\ exit' = "duplicates"
                 /\ pc' = "select"
               ELSE
                 /\ pc' = "advance"
                 /\ UNCHANGED <<ebook_pdf, exit>>
          ELSE IF r.shot = None THEN
            /\ pc' = "focus_check"
            /\ UNCHANGED <<duplicate_count, ebook_pdf, exit>>
          ELSE
            /\ duplicate_count' = 0
            /\ pc' = "advance"
            /\ UNCHANGED <<ebook_pdf, exit>>
  /\ probe' = None
  /\ frontmost' = None
  /\ advances' = 0
  /\ UNCHANGED <<target_bundle_id, moved, run, image, phash>>

Capture == CaptureOf(Frames)

\* the same loop in front of a window that shows the frames around the
\* threshold
CaptureBoundary == CaptureOf(BoundaryFrames)

\* AdvanceFailed without the test of line 715
AdvanceFailed_Ignored(m) == FALSE

\* line 715: the loop goes on only after a delivered key
AdvanceFailed(m) == ~m

\* lines 712-723: send_right_arrow, then either the break or the settle delay
Advance ==
  /\ pc = "advance"
  /\ \E primary \in BOOLEAN, fallback \in BOOLEAN :
       LET m == send_right_arrow(primary, fallback) IN
       /\ moved' = m
       /\ captured' = None
       /\ pending' = IF m THEN FALSE ELSE pending
       /\ advances' = advances + 1
       /\ IF AdvanceFailed(m) THEN
            /\ ebook_pdf' = _create_pdf(screenshots_dir, ebook_pdf)
            /\ exit' = "advance_failed"
            /\ pc' = "select"
          ELSE
            /\ pc' = "focus_check"
            /\ UNCHANGED <<ebook_pdf, exit>>
  /\ UNCHANGED <<screenshots_dir, last_image_hash, reached_duplicate,
                 duplicate_count, target_bundle_id, frontmost, shot, run,
                 verdict, dup_run, failures, new_frames, probe, image, phash>>

Next == SelectApp \/ FocusCheck \/ Capture \/ Advance

Spec == Init /\ [][Next]_vars

\* A probe taken before a capture.  main never calls _capture_temp_hash; the
\* action lets a caller use it where a pre-check belongs, until one probe has
\* returned a fingerprint.
CaptureTempHash ==
  /\ pc = "capture"
  /\ probe = None
  /\ \E env \in ProbeEnv : \E f \in ShownWhen(env, Frames) :
       LET r == _capture_temp_hash(AppState, env, f) IN
       /\ Len(r.dir) <= MaxPages
       /\ probe' = r.ret
       /\ screenshots_dir' = r.dir
       /\ last_image_hash' = r.hash
       /\ reached_duplicate' = r.flag
  /\ UNCHANGED <<pc, duplicate_count, target_bundle_id, frontmost, shot, moved,
                 ebook_pdf, exit, run, verdict, dup_run, failures, captured,
                 new_frames, pending, advances, image, phash>>

NextProbe == SelectApp \/ FocusCheck \/ Capture \/ Advance \/ CaptureTempHash

SpecProbe == Init /\ [][NextProbe]_vars

NextBoundary == SelectApp \/ FocusCheck \/ CaptureBoundary \/ Advance

SpecBoundary == Init /\ [][NextBoundary]_vars

\* ------------------------------------------------- _calculate_phash alone
\* The transformed grids the check hands to _calculate_phash.  A grid is known
\* by four numbers: dc is the coefficient at (0,0); inside the top-left 8x8
\* block the coefficient at (y,x) is a, b or c by (y*8+x) % 3; every
\* coefficient outside the block is 900.
GridParams ==
  [dc : {0, 8000}, a : (0 - MaxCoef)..MaxCoef, b : (0 - MaxCoef)..MaxCoef,
   c : (0 - MaxCoef)..MaxCoef]

\* dct of line 412 for the grid p: dct[y][x] for y, x in 0..31
TransformedGrid(p) ==
  [y \in 0..(GridSide - 1) |-> [x \in 0..(GridSide - 1) |->
     IF x = 0 /\ y = 0 THEN p.dc
     ELSE IF y >= HashSide \/ x >= HashSide THEN 900
     ELSE CASE (y * HashSide + x) % 3 = 0 -> p.a
            [] (y * HashSide + x) % 3 = 1 -> p.b
            [] OTHER -> p.c]]

\* an AppManager exists and some image is about to be hashed
InitPhash ==
  /\ InitMain
  /\ \E p \in GridParams : image = Some(p)
  /\ phash = None

\* one call of _calculate_phash(image), lines 413-429 on the transformed grid
CalculatePhash ==
  /\ image # None
  /\ phash = None
  /\ phash' = Some(_calculate_phash(TransformedGrid(image[1])))
  /\ UNCHANGED <<pc, screenshots_dir, last_image_hash, reached_duplicate,
                 duplicate_count, target_bundle_id, frontmost, shot, moved,
                 ebook_pdf, exit, run, verdict, dup_run, failures, captured,
                 new_frames, probe, pending, advances, image>>

NextPhash == CalculatePhash

SpecPhash == InitPhash /\ [][NextPhash]_vars

TypeOK ==
  /\ pc \in {"select", "focus_check", "capture", "advance", "done"}
  /\ reached_duplicate \in BOOLEAN
  /\ duplicate_count \in 0..max_duplicates
  /\ Len(screenshots_dir) <= MaxPages
  /\ run \in 0..MaxRuns

\* ------------------------------------------------------------------ claims
\* The fingerprint capture_screenshot keeps for a persisted page.
PageFingerprint(f) == IF Readable(f) THEN PhashOf[f] ELSE Md5Of[f]

LastPage == screenshots_dir[Len(screenshots_dir)]

\* Hamming distance of two strings of the same length
RECURSIVE Hamming(_, _)
Hamming(a, b) ==
  IF a = << >> \/ b = << >> THEN 0
  ELSE (IF Head(a) # Head(b) THEN 1 ELSE 0) + Hamming(Tail(a), Tail(b))

\* The detector's distance as the specification words it: 0 when an operand
\* is absent or the lengths differ, else the Hamming distance.
DetectorDistance(c, b) ==
  IF c = None \/ b = None THEN 0
  ELSE IF Len(c[1]) # Len(b[1]) THEN 0
  ELSE Hamming(c[1], b[1])

\* The run has started and has not captured yet.
RunStart == pc \in {"focus_check", "capture"} /\ verdict = "none" /\ run >= 1

\* C1: a capture_screenshot call that returns without classifying a frame
\* leaves the consecutive-duplicate counter as it was.
C1_FailedCaptureNotCounted ==
  [][(pc = "capture" /\ verdict' = "Failed")
       => duplicate_count' = duplicate_count]_vars

C3_CompletedAfterTenDuplicates ==
  (exit = "duplicates" /\ failures = 0)
    => /\ dup_run = max_duplicates
       /\ verdict = "Duplicate"
       /\ Images(screenshots_dir) = new_frames

\* C3 in the first capture loop of a process
C3_FirstRunCompletedAfterTenDuplicates ==
  (exit = "duplicates" /\ failures = 0 /\ run = 1)
    => /\ dup_run = max_duplicates
       /\ verdict = "Duplicate"
       /\ Images(screenshots_dir) = new_frames

\* C4: a failed advance ends the run at once: the loop is left with the
\* advance-failure exit, no page is added or removed, and no capture or
\* advance follows in that run.
C4_AdvanceFailureAborts ==
  /\ [][(pc = "advance" /\ ~moved')
          => /\ pc' = "select"
             /\ exit' = "advance_failed"
             /\ screenshots_dir' = screenshots_dir
             /\ last_image_hash' = last_image_hash
             /\ duplicate_count' = duplicate_count]_vars
  /\ [](exit = "advance_failed" => pc \in {"select", "done"})

C4_Witness ==
  /\ exit = "advance_failed"
  /\ ~moved
  /\ run = 1
  /\ new_frames = << "F1" >>
  /\ Images(screenshots_dir) = << "F1" >>

C6_FingerprintFailureSkipsFrame ==
  [][(pc = "capture" /\ captured' # None /\ CurrentPhash(captured'[1]) = None)
       => /\ screenshots_dir' = screenshots_dir
          /\ last_image_hash' = last_image_hash]_vars

\* C7: at the start of every run the baseline is None, the duplicate counter
\* is 0 and the duplicate flag is clear.
C7_FreshLoopStateAtRunStart ==
  RunStart => /\ last_image_hash = None
              /\ duplicate_count = 0
              /\ ~reached_duplicate

\* C8: at the start of every run the screenshots directory is empty.
C8_StoreEmptyAtRunStart ==
  RunStart => screenshots_dir = << >>

\* C9: a _capture_temp_hash call (the one step that keeps main in front of
\* the capture) leaves the screenshots directory, the baseline and the
\* duplicate flag as they were, whatever it returns.
C9_ProbeNeverWrites ==
  [][(pc = "capture" /\ pc' = "capture")
       => /\ screenshots_dir' = screenshots_dir
          /\ last_image_hash' = last_image_hash
          /\ reached_duplicate' = reached_duplicate]_vars

C9_Witness ==
  /\ probe = Some(PhashOf["F2"])
  /\ last_image_hash = Some(PhashOf["F1"])
  /\ ~IsDuplicateFrame(last_image_hash, probe)
  /\ Images(screenshots_dir) = << "F1" >>

\* C10: every capture is entered through the focus check; a foreground app
\* other than the target ends the run there with the focus exit, without a
\* capture, a page write, a counter change or an advance; no other step
\* takes the focus exit.
C10_FocusCheckStopsRun ==
  /\ [][(pc = "focus_check" /\ frontmost' # None
           /\ frontmost'[1] # target_bundle_id[1])
          => /\ pc' = "select"
             /\ exit' = "focus"
             /\ UNCHANGED <<screenshots_dir, last_image_hash, reached_duplicate,
                            duplicate_count, shot, moved, verdict, captured,
                            new_frames>>]_vars
  /\ [][pc' = "capture" => pc = "focus_check"]_vars
  /\ [][(exit' = "focus" /\ exit # "focus") => pc = "focus_check"]_vars

C10_Witness ==
  /\ exit = "focus"
  /\ pc = "select"
  /\ frontmost = Some("com.apple.Terminal")
  /\ verdict = "Failed"
  /\ failures = 1
  /\ screenshots_dir # << >>

\* C11: inside a run no capture_screenshot call is made while a classified
\* frame still waits for its advance: after a frame was classified, the next
\* capture comes only after send_right_arrow delivered a key, so no page is
\* persisted twice without an advance in between.
C11_NoCaptureBeforeAdvance ==
  /\ pc = "capture" => ~pending
  /\ (pc = "capture" /\ verdict \in {"New", "Duplicate"})
       => (moved /\ advances >= 1)

C11_Witness ==
  /\ pc = "capture"
  /\ verdict = "New"
  /\ Len(new_frames) = 1
  /\ moved
  /\ ~pending

\* C12: in every reachable state last_image_hash is either None or a string
\* of exactly 64 characters over {0,1}.
C12_BaselineIs64Bits ==
  \/ last_image_hash = None
  \/ /\ Len(last_image_hash[1]) = HashSide * HashSide
     /\ \A i \in 1..Len(last_image_hash[1]) : last_image_hash[1][i] \in {"0", "1"}

\* A step of capture_screenshot that classifies its frame New
NewVerdictStep == pc = "capture" /\ verdict' = "New" /\ captured' # None

\* C13: every New classification adds the frame to the screenshots directory
\* exactly once, makes the frame's 64-bit fingerprint the baseline and sets
\* duplicate_count to 0; in every state of a run the directory holds as many
\* pages as New verdicts were issued in that run.
C13_NewPersistsOnceAndCounts ==
  /\ [][NewVerdictStep
          => /\ Images(screenshots_dir')
                  = Append(Images(screenshots_dir), captured'[1])
             /\ last_image_hash' = CurrentPhash(captured'[1])
             /\ duplicate_count' = 0]_vars
  /\ [](run >= 1 => Len(screenshots_dir) = Len(new_frames))

\* What remains of C13 in the code: a New frame that has a pHash is persisted
\* once and becomes the baseline, the counter is reset, and in the first run
\* of a process the directory holds one page per New verdict.
C13_FirstRunNewPersistsOnce ==
  /\ [][(NewVerdictStep /\ Readable(captured'[1]))
          => /\ Images(screenshots_dir')
                  = Append(Images(screenshots_dir), captured'[1])
             /\ last_image_hash' = Some(PhashOf[captured'[1]])
             /\ duplicate_count' = 0]_vars
  /\ [](run = 1 => Len(screenshots_dir) = Len(new_frames))

\* A step of capture_screenshot that classifies its frame Duplicate
DuplicateVerdictStep == pc = "capture" /\ verdict' = "Duplicate" /\ captured' # None

\* C14: a Duplicate classification leaves the screenshots directory and the
\* baseline as they were and adds exactly 1 to duplicate_count; in every
\* state duplicate_count is the number of Duplicate verdicts since the last
\* New verdict of the run, or since the start of the run.
C14_DuplicateDiscardsAndCounts ==
  /\ [][DuplicateVerdictStep
          => /\ screenshots_dir' = screenshots_dir
             /\ last_image_hash' = last_image_hash
             /\ duplicate_count' = duplicate_count + 1]_vars
  /\ [](duplicate_count = dup_run)

\* What remains of C14 in the code: the effect of one Duplicate verdict, and
\* the counter's value while no capture of the run has failed.
C14_DuplicateDiscardsFrame ==
  /\ [][DuplicateVerdictStep
          => /\ screenshots_dir' = screenshots_dir
             /\ last_image_hash' = last_image_hash
             /\ duplicate_count' = duplicate_count + 1]_vars
  /\ [](failures = 0 => duplicate_count = dup_run)

\* C15: the capture that brings duplicate_count to max_duplicates ends the
\* loop with the duplicates exit and no send_right_arrow call follows it in
\* that run; duplicate_count never exceeds max_duplicates; after every other
\* classification main goes to the advance, and exactly one send_right_arrow
\* call lies between that classification and the next capture.
C15_StopsAtMaxDuplicates ==
  /\ [][(pc = "capture" /\ duplicate_count' # duplicate_count
           /\ duplicate_count' >= max_duplicates)
          => (pc' = "select" /\ exit' = "duplicates" /\ advances' = 0)]_vars
  /\ [](exit = "duplicates" => pc \in {"select", "done"})
  /\ [](duplicate_count <= max_duplicates)
  /\ [][(pc = "capture" /\ verdict' \in {"New", "Duplicate"}
           /\ duplicate_count' < max_duplicates)
          => pc' = "advance"]_vars
  /\ [][pc = "advance" => (pc' # "advance" /\ advances' = 1)]_vars
  /\ []((pc = "capture" /\ verdict \in {"New", "Duplicate"}) => advances = 1)

C15_Witness ==
  /\ pc = "select"
  /\ exit = "duplicates"
  /\ duplicate_count = max_duplicates
  /\ verdict = "Duplicate"
  /\ advances = 0

\* Sum of the coefficients of rows 0..y, columns 0..7 of a grid
RECURSIVE RowSum(_, _, _)
RowSum(g, y, x) == IF x < 0 THEN 0 ELSE g[y][x] + RowSum(g, y, x - 1)
RECURSIVE BlockSum(_, _)
BlockSum(g, y) ==
  IF y < 0 THEN 0 ELSE RowSum(g, y, HashSide - 1) + BlockSum(g, y - 1)

\* floor of the mean of the 63 non-DC coefficients of the top-left block; an
\* integer coefficient exceeds the mean iff it exceeds this floor
NonDcMeanFloor(g) ==
  (BlockSum(g, HashSide - 1) - g[0][0]) \div (HashSide * HashSide - 1)

\* C16: _calculate_phash returns exactly 64 characters over {0,1}, in
\* row-major order of the top-left 8x8 block of the transformed grid: the
\* character of (0,0) is 0 and the character of every other (y,x) is 1 iff
\* the coefficient there is strictly greater than the mean of the 63 non-DC
\* coefficients of the block; the call changes no AppManager state.
C16_PhashBitsAgainstMean ==
  /\ [](phash # None =>
         LET g == TransformedGrid(image[1])
             h == phash[1]
         IN  /\ Len(h) = 64
             /\ h[1] = "0"
             /\ \A y \in 0..7, x \in 0..7 :
                  (y # 0 \/ x # 0) =>
                    /\ h[y * 8 + x + 1] \in {"0", "1"}
                    /\ h[y * 8 + x + 1] = "1" <=> g[y][x] > NonDcMeanFloor(g))
  /\ [][phash' # phash
          => UNCHANGED <<last_image_hash, reached_duplicate, screenshots_dir>>]_vars

C16_Witness ==
  /\ phash # None
  /\ image[1].dc = 8000
  /\ image[1].a > image[1].b
  /\ \E i \in 2..64 : phash[1][i] = "1"
  /\ \E i \in 2..64 : phash[1][i] = "0"

\* A step that leaves the capture loop through one of its three breaks
ExitStep == exit = "none" /\ exit' # "none"

\* ebook.pdf after a finalization as C17 words it: the pages of the directory
\* in order without the last one when there are at least two, the single page
\* when there is one, and no write when there is none
FinalPdf(dir, old) ==
  IF Len(dir) = 0 THEN old
  ELSE IF Len(dir) = 1 THEN Some(Images(dir))
  ELSE Some(Images(SubSeq(dir, 1, Len(dir) - 1)))

\* C17: every way out of the capture loop is a step that runs _create_pdf and
\* returns to the app selection; ebook.pdf is written by such steps only, it
\* then holds the persisted pages in sorted order without the last one (the
\* single page if there is one; nothing is written if there is none), and the
\* page files stay in the directory.
C17_EveryExitFinalizes ==
  /\ [][(pc \in {"focus_check", "capture", "advance"} /\ pc' = "select")
          => ExitStep]_vars
  /\ [][ExitStep
          => /\ pc' = "select"
             /\ screenshots_dir' = screenshots_dir
             /\ ebook_pdf' = FinalPdf(screenshots_dir, ebook_pdf)]_vars
  /\ [][ebook_pdf' # ebook_pdf => ExitStep]_vars

\* What remains of C17 in the code: the same, for a finalization all of whose
\* pages PIL can open.
C17_ExitFinalizesReadablePages ==
  /\ [][(pc \in {"focus_check", "capture", "advance"} /\ pc' = "select")
          => ExitStep]_vars
  /\ [][ExitStep
          => /\ pc' = "select"
             /\ screenshots_dir' = screenshots_dir
             /\ (\A i \in 1..Len(screenshots_dir) : Readable(screenshots_dir[i].img))
                  => ebook_pdf' = FinalPdf(screenshots_dir, ebook_pdf)]_vars
  /\ [][ebook_pdf' # ebook_pdf => ExitStep]_vars
====
